---- MODULE Spec2Model ----
(***************************************************************************)
(* Session rendezvous and message dispatch of the game server              *)
(* (src/src/gamehandler.cpp).                                              *)
(*                                                                         *)
(* The server is a single-threaded event loop.  GameHandler::process()     *)
(* lets ConnectionHandler::process() dispatch the arrived transport events *)
(* (computerConnected, computerDisconnected, processMessage), one at a     *)
(* time, and then runs removeOutdatedPending().  The account server calls  *)
(* registerGameClient() directly, between those events.  Every handler     *)
(* runs to completion, so each one is one atomic action here; the action   *)
(* "process" is the end of one process() call: the expiry sweep.           *)
(***************************************************************************)
EXTENDS Integers, Sequences, FiniteSets

(***************************************************************************)
(* Bounds of the model.                                                    *)
(***************************************************************************)
MaxTokens == 2
MaxConns == 2
MaxIds == 2
MaxItems == 1
MaxCoord == 1
MaxSweeps == 2
MaxMaps == 2
MaxHandoffs == 2

(***************************************************************************)
(* Program constants.                                                      *)
(***************************************************************************)
\* computer.getCharacter().get() == NULL: the connection is unbound
NULL == 0
\* p.timeout = 300; // world ticks
LoginTimeout == 300

Tokens == 1..MaxTokens      \* magic tokens; std::map keeps them in key order
Conns == 1..MaxConns        \* addresses a GameClient object can have
Ids == 1..MaxIds            \* the Player objects a PlayerPtr can point to
Items == 1..MaxItems        \* item ids
Coords == 1..MaxCoord       \* map coordinates
NoToken == NULL

\* "PGMSG_OTHER" below stands for every message id that has no case in the
\* switch of processMessage.

\* An inbound message: its id and the payload fields the handlers read
\* (token: readString(32) of CONNECT; item: readLong of PICKUP, USE_ITEM and
\* EQUIP; x, y: the two readShort of WALK).  The text of SAY and the slot of
\* EQUIP are read and handed on unchanged; they decide nothing here.  Fields
\* a message does not carry are NULL.
MsgIn(id, token, item, x, y) ==
    [id |-> id, token |-> token, item |-> item, x |-> x, y |-> y]

Messages ==
    {MsgIn("PGMSG_CONNECT", t, NULL, NULL, NULL) : t \in Tokens}
    \cup {MsgIn(id, NoToken, i, NULL, NULL) :
            id \in {"PGMSG_PICKUP", "PGMSG_USE_ITEM", "PGMSG_EQUIP"}, i \in Items}
    \cup {MsgIn("PGMSG_WALK", NoToken, NULL, x, y) : x \in Coords, y \in Coords}
    \cup {MsgIn(id, NoToken, NULL, NULL, NULL) : id \in {"PGMSG_SAY", "PGMSG_OTHER"}}

NoMsg == MsgIn("none", NoToken, NULL, NULL, NULL)

\* An outbound message: the short written first, the status byte (or "none")
\* and, for GPMSG_SAY, the speaker whose name is written.
MsgOut(id, status, speaker) == [id |-> id, status |-> status, speaker |-> speaker]

ConnectOK == MsgOut("GPMSG_CONNECT_RESPONSE", "ERRMSG_OK", NULL)

VARIABLES
    clients,         \* NetComputers clients: the live GameClient objects
    character,       \* GameClient::getCharacter() of every live client
    pendingLogins,   \* token -> [character, timeout]
    pendingClients,  \* token -> GameClient*
    inventory,       \* Player inventory: the items addInventory() has added
    destination,     \* Player destination: the last setDestination(x, y)
    mapId,           \* Player::getMapId()
    xy,              \* Player::getXY()
    out,             \* what the last handler passed to send(), per connection
    last,            \* the handler that ran last, with its arguments and
                     \* what Player::equip() returned to it
    sweeps,          \* per token: expiry sweeps since its pending login was
                     \* created (-1: no unmatched login was created)
    orphaned,        \* tokens whose pending client was purged by a disconnect
    tally            \* per token: the registerGameClient calls (handoffs)
                     \* and the setCharacter calls (binds) so far, counted
                     \* in the specifications that start with counting on

vars ==
    <<clients, character, pendingLogins, pendingClients, inventory, destination,
      mapId, xy, out, last, sweeps, orphaned, tally>>

world == <<mapId, xy>>

\* Nothing sent, to any of the client addresses of the specification.
NoOut == [c \in DOMAIN out |-> <<>>]

\* ret is what Player::equip() returned to the handler ("true", "false"), or
\* "none" when the handler did not call it.
Op(op, conn, token, ch, msg) ==
    [op |-> op, conn |-> conn, token |-> token, ch |-> ch, msg |-> msg,
     ret |-> "none"]

(***************************************************************************)
(* std::map operations.                                                    *)
(***************************************************************************)
\* std::map::insert: an existing key keeps its value
MapInsert(m, k, v) ==
    IF k \in DOMAIN m
    THEN m
    ELSE [x \in DOMAIN m \cup {k} |-> IF x = k THEN v ELSE m[x]]

MapErase(m, k) == [x \in DOMAIN m \ {k} |-> m[x]]

EmptyMap == [x \in {} |-> NULL]

\* setCharacter() on a live client.  A call through a dangling pointer is
\* undefined; C6_DisconnectCleanup shows that no handler makes one (no
\* pendingClients entry references a deleted client), and here it changes
\* no live client's field.
SetCharacter(c, ch) ==
    IF c \in clients THEN [character EXCEPT ![c] = ch] ELSE character

Send(o, c, m) == [o EXCEPT ![c] = Append(@, m)]

NoTally ==
    [counting |-> FALSE,
     handoffs |-> [t \in Tokens |-> 0],
     binds |-> [t \in Tokens |-> 0]]

\* The tally after h more registerGameClient(token, ...) calls and b more
\* setCharacter calls made for token.
Counted(token, h, b) ==
    IF tally.counting
    THEN [tally EXCEPT !.handoffs[token] = @ + h, !.binds[token] = @ + b]
    ELSE tally

Init ==
    /\ clients = {}
    /\ character = EmptyMap
    /\ pendingLogins = EmptyMap
    /\ pendingClients = EmptyMap
    /\ inventory = [i \in Ids |-> {}]
    /\ destination = [i \in Ids |-> <<>>]
    /\ mapId = [i \in Ids |-> 1]
    /\ xy = [i \in Ids |-> <<1, 1>>]
    /\ out = [c \in Conns |-> <<>>]
    /\ last = Op("init", NULL, NoToken, NULL, NoMsg)
    /\ sweeps = [t \in Tokens |-> -1]
    /\ orphaned = {}
    /\ tally = NoTally

(***************************************************************************)
(* registerGameClient(token, ch): the account server hands off a token.    *)
(***************************************************************************)
\* Mutant: the waiting clients are never looked up.
FindPendingClient_Never(token) == FALSE

\* pendingClients.find(token) != pendingClients.end()
FindPendingClient(token) == token \in DOMAIN pendingClients

\* GamePendingLogin p; p.character = ch; p.timeout = 300;
NewPendingLogin(ch) == [character |-> ch, timeout |-> LoginTimeout]

\* Mutant: pendingLogins[token] = p, which replaces an existing entry.
InsertPendingLogin_Overwrite(token, p) ==
    [x \in DOMAIN pendingLogins \cup {token} |->
        IF x = token THEN p ELSE pendingLogins[x]]

\* pendingLogins.insert(std::make_pair(token, p))
InsertPendingLogin(token, p) == MapInsert(pendingLogins, token, p)

\* Mutant: the matched entry is not erased from pendingClients.
registerGameClient_NoErase(token, ch) ==
    /\ IF FindPendingClient(token)
       THEN LET computer == pendingClients[token] IN
            /\ character' = SetCharacter(computer, ch)
            /\ out' = Send(NoOut, computer, ConnectOK)
            /\ tally' = Counted(token, 1, 1)
            /\ UNCHANGED <<pendingClients, pendingLogins, sweeps>>
       ELSE /\ pendingLogins' = InsertPendingLogin(token, NewPendingLogin(ch))
            /\ sweeps' = IF token \in DOMAIN pendingLogins
                         THEN sweeps
                         ELSE [sweeps EXCEPT ![token] = 0]
            /\ out' = NoOut
            /\ tally' = Counted(token, 1, 0)
            /\ UNCHANGED <<character, pendingClients>>
    /\ last' = Op("registerGameClient", NULL, token, ch, NoMsg)
    /\ UNCHANGED <<clients, inventory, destination, world, orphaned>>

registerGameClient(token, ch) ==
    /\ IF FindPendingClient(token)
       THEN LET computer == pendingClients[token] IN
            /\ character' = SetCharacter(computer, ch)
            /\ pendingClients' = MapErase(pendingClients, token)
            /\ out' = Send(NoOut, computer, ConnectOK)
            /\ tally' = Counted(token, 1, 1)
            /\ UNCHANGED <<pendingLogins, sweeps>>
       ELSE /\ pendingLogins' = InsertPendingLogin(token, NewPendingLogin(ch))
            /\ sweeps' = IF token \in DOMAIN pendingLogins
                         THEN sweeps
                         ELSE [sweeps EXCEPT ![token] = 0]
            /\ out' = NoOut
            /\ tally' = Counted(token, 1, 0)
            /\ UNCHANGED <<character, pendingClients>>
    /\ last' = Op("registerGameClient", NULL, token, ch, NoMsg)
    /\ UNCHANGED <<clients, inventory, destination, world, orphaned>>

(***************************************************************************)
(* removeOutdatedPending() and process().                                  *)
(***************************************************************************)
\* Mutant: the test is timeout < 0, one sweep late.
removeOutdatedPending_Late(logins) ==
    [t \in {k \in DOMAIN logins : logins[k].timeout - 1 >= 0} |->
        [logins[t] EXCEPT !.timeout = @ - 1]]

\* if (--i->second.timeout <= 0) pendingLogins.erase(i), for every entry
removeOutdatedPending(logins) ==
    [t \in {k \in DOMAIN logins : logins[k].timeout - 1 > 0} |->
        [logins[t] EXCEPT !.timeout = @ - 1]]

\* Mutant: the sweep runs twice in one process() call.
process_SweepTwice ==
    /\ pendingLogins' = removeOutdatedPending(removeOutdatedPending(pendingLogins))
    /\ sweeps' = [t \in Tokens |-> IF sweeps[t] >= 0 THEN sweeps[t] + 1 ELSE sweeps[t]]
    /\ out' = NoOut
    /\ last' = Op("process", NULL, NoToken, NULL, NoMsg)
    /\ UNCHANGED <<clients, character, pendingClients, inventory, destination,
                   world, orphaned, tally>>

\* Mutant: the sweep also drops the clients that wait.
process_DropClients ==
    /\ pendingLogins' = removeOutdatedPending(pendingLogins)
    /\ pendingClients' = EmptyMap
    /\ sweeps' = [t \in Tokens |-> IF sweeps[t] >= 0 THEN sweeps[t] + 1 ELSE sweeps[t]]
    /\ out' = NoOut
    /\ last' = Op("process", NULL, NoToken, NULL, NoMsg)
    /\ UNCHANGED <<clients, character, inventory, destination,
                   world, orphaned, tally>>

\* The end of one process() call: ConnectionHandler::process() has
\* dispatched its events (the actions below), the sweep runs.
process ==
    /\ pendingLogins' = removeOutdatedPending(pendingLogins)
    /\ sweeps' = [t \in Tokens |-> IF sweeps[t] >= 0 THEN sweeps[t] + 1 ELSE sweeps[t]]
    /\ out' = NoOut
    /\ last' = Op("process", NULL, NoToken, NULL, NoMsg)
    /\ UNCHANGED <<clients, character, pendingClients, inventory, destination,
                   world, orphaned, tally>>

(***************************************************************************)
(* computerConnected(peer) and computerDisconnected(computer).             *)
(***************************************************************************)
\* new GameClient(this, peer): a fresh object, at any address no live
\* client has (the address of a deleted client can be given out again),
\* with no character.
computerConnected(c) ==
    /\ c \notin clients
    /\ clients' = clients \cup {c}
    /\ character' = [x \in clients \cup {c} |-> IF x = c THEN NULL ELSE character[x]]
    /\ out' = NoOut
    /\ last' = Op("computerConnected", c, NoToken, NULL, NoMsg)
    /\ UNCHANGED <<pendingLogins, pendingClients, inventory, destination, world,
                   sweeps, orphaned, tally>>

\* Mutant: the disconnect purges nothing.
ErasePendingClient_None(computer) == pendingClients

\* The loop over pendingClients in key order: the first entry whose value
\* is computer is erased, then break.
ErasePendingClient(computer) ==
    LET keys == {t \in DOMAIN pendingClients : pendingClients[t] = computer} IN
    IF keys = {}
    THEN pendingClients
    ELSE MapErase(pendingClients, CHOOSE t \in keys : \A u \in keys : t <= u)

computerDisconnected(c) ==
    /\ c \in clients
    /\ pendingClients' = ErasePendingClient(c)
    /\ orphaned' = orphaned \cup (DOMAIN pendingClients \ DOMAIN pendingClients')
    /\ clients' = clients \ {c}
    /\ character' = [x \in clients \ {c} |-> character[x]]
    /\ out' = NoOut
    /\ last' = Op("computerDisconnected", c, NoToken, NULL, NoMsg)
    /\ UNCHANGED <<pendingLogins, inventory, destination, world, sweeps, tally>>

(***************************************************************************)
(* sayAround(computer, text) and sendTo(beingPtr, msg).                    *)
(***************************************************************************)
\* The proximity predicate of the map code.
areAround(x1, y1, x2, y2) ==
    /\ x1 - x2 \in -1..1
    /\ y1 - y2 \in -1..1

\* Mutant: the map ids are not compared.
sayAround_AnyMap(computer) ==
    LET being == character[computer]
        msg == MsgOut("GPMSG_SAY", "none", being)
    IN  [i \in DOMAIN out |->
            IF /\ i \in clients
               /\ character[i] # NULL
               /\ areAround(xy[character[i]][1], xy[character[i]][2],
                            xy[being][1], xy[being][2])
            THEN <<msg>>
            ELSE <<>>]

\* The messages sayAround(computer, text) sends, per connection.
sayAround(computer) ==
    LET being == character[computer]
        msg == MsgOut("GPMSG_SAY", "none", being)
    IN  [i \in DOMAIN out |->
            IF /\ i \in clients
               /\ character[i] # NULL
               /\ mapId[character[i]] = mapId[being]
               /\ areAround(xy[character[i]][1], xy[character[i]][2],
                            xy[being][1], xy[being][2])
            THEN <<msg>>
            ELSE <<>>]

\* Mutant: the break is missing, every client bound to beingPtr gets msg.
sendTo_NoBreak(being) ==
    /\ out' = [c \in DOMAIN out |->
                IF c \in clients /\ character[c] = being
                THEN <<MsgOut("MSG", "none", NULL)>>
                ELSE <<>>]
    /\ last' = Op("sendTo", NULL, NoToken, being, NoMsg)
    /\ UNCHANGED <<clients, character, pendingLogins, pendingClients, inventory,
                   destination, world, sweeps, orphaned, tally>>

\* The scan stops at the first client whose character is beingPtr; the
\* order of the clients container is not fixed by this file, so any
\* client bound to beingPtr can be the first.
sendTo(being) ==
    /\ LET bound == {c \in clients : character[c] = being} IN
       IF bound = {}
       THEN out' = NoOut
       ELSE \E c \in bound : out' = Send(NoOut, c, MsgOut("MSG", "none", NULL))
    /\ last' = Op("sendTo", NULL, NoToken, being, NoMsg)
    /\ UNCHANGED <<clients, character, pendingLogins, pendingClients, inventory,
                   destination, world, sweeps, orphaned, tally>>

(***************************************************************************)
(* processMessage(comp, message).                                          *)
(***************************************************************************)
\* Mutant: the id of the message is not tested.
UnboundAccepts_Any(message) == TRUE

\* if (message.getId() != PGMSG_CONNECT) return;
UnboundAccepts(message) == message.id = "PGMSG_CONNECT"

\* pendingLogins.find(magic_token) != pendingLogins.end()
FindPendingLogin(magic_token) == magic_token \in DOMAIN pendingLogins

\* Mutant: the loop that looks for the client's own entry is missing.
AlreadyPending_Never(computer) == FALSE

\* for (i ...) if (i->second == &computer) return;
AlreadyPending(computer) ==
    \E t \in DOMAIN pendingClients : pendingClients[t] = computer

\* Mutant: pendingClients[magic_token] = &computer, which replaces an
\* existing entry.
InsertPendingClient_Overwrite(magic_token, computer) ==
    [x \in DOMAIN pendingClients \cup {magic_token} |->
        IF x = magic_token THEN computer ELSE pendingClients[x]]

\* pendingClients.insert(std::make_pair(magic_token, &computer))
InsertPendingClient(magic_token, computer) ==
    MapInsert(pendingClients, magic_token, computer)

\* Mutant: the matched login is not erased from pendingLogins.
processUnbound_KeepLogin(computer, message) ==
    IF ~UnboundAccepts(message)
    THEN /\ out' = NoOut
         /\ UNCHANGED <<character, pendingLogins, pendingClients, sweeps, tally>>
    ELSE LET magic_token == message.token IN
         IF ~FindPendingLogin(magic_token)
         THEN /\ pendingClients' =
                    IF AlreadyPending(computer)
                    THEN pendingClients
                    ELSE InsertPendingClient(magic_token, computer)
              /\ out' = NoOut
              /\ UNCHANGED <<character, pendingLogins, sweeps, tally>>
         ELSE /\ character' = SetCharacter(computer, pendingLogins[magic_token].character)
              /\ out' = Send(NoOut, computer, ConnectOK)
              /\ tally' = Counted(magic_token, 0, 1)
              /\ UNCHANGED <<pendingLogins, pendingClients, sweeps>>

\* The branch for a client without a character.
processUnbound(computer, message) ==
    IF ~UnboundAccepts(message)
    THEN /\ out' = NoOut
         /\ UNCHANGED <<character, pendingLogins, pendingClients, sweeps, tally>>
    ELSE LET magic_token == message.token IN
         IF ~FindPendingLogin(magic_token)
         THEN /\ pendingClients' =
                    IF AlreadyPending(computer)
                    THEN pendingClients
                    ELSE InsertPendingClient(magic_token, computer)
              /\ out' = NoOut
              /\ UNCHANGED <<character, pendingLogins, sweeps, tally>>
         ELSE /\ character' = SetCharacter(computer, pendingLogins[magic_token].character)
              /\ pendingLogins' = MapErase(pendingLogins, magic_token)
              /\ sweeps' = [sweeps EXCEPT ![magic_token] = -1]
              /\ out' = Send(NoOut, computer, ConnectOK)
              /\ tally' = Counted(magic_token, 0, 1)
              /\ UNCHANGED pendingClients

\* Mutant: result is never sent (the send after the switch is missing).
processBound_NoSend(computer, message, equipped) ==
    LET ch == character[computer]
        id == message.id
        said == IF id = "PGMSG_SAY" THEN sayAround(computer) ELSE NoOut
    IN  /\ inventory' = IF id = "PGMSG_PICKUP"
                        THEN [inventory EXCEPT ![ch] = @ \cup {message.item}]
                        ELSE inventory
        /\ destination' = IF id = "PGMSG_WALK"
                          THEN [destination EXCEPT ![ch] = <<message.x, message.y>>]
                          ELSE destination
        /\ out' = said

\* The switch for a client with a character; equipped is what
\* Player::equip(itemId, slot) returns.
processBound(computer, message, equipped) ==
    LET ch == character[computer]
        id == message.id
        result ==
            CASE id = "PGMSG_PICKUP" ->
                    <<MsgOut("GPMSG_PICKUP_RESPONSE", "ERRMSG_OK", NULL)>>
              [] id = "PGMSG_USE_ITEM" ->
                    <<MsgOut("GPMSG_USE_RESPONSE",
                             IF message.item \in inventory[ch]
                             THEN "ERRMSG_OK" ELSE "ERRMSG_FAILURE", NULL)>>
              [] id = "PGMSG_EQUIP" ->
                    <<MsgOut("GPMSG_EQUIP_RESPONSE",
                             IF equipped THEN "ERRMSG_OK" ELSE "ERRMSG_FAILURE", NULL)>>
              [] id \in {"PGMSG_SAY", "PGMSG_WALK"} -> <<>>
              [] OTHER -> <<MsgOut("XXMSG_INVALID", "none", NULL)>>
        said == IF id = "PGMSG_SAY" THEN sayAround(computer) ELSE NoOut
    IN  /\ inventory' = IF id = "PGMSG_PICKUP"
                        THEN [inventory EXCEPT ![ch] = @ \cup {message.item}]
                        ELSE inventory
        /\ destination' = IF id = "PGMSG_WALK"
                          THEN [destination EXCEPT ![ch] = <<message.x, message.y>>]
                          ELSE destination
        /\ out' = [said EXCEPT ![computer] = @ \o result]

processMessage(computer, message) ==
    /\ computer \in clients
    /\ IF character[computer] = NULL
       THEN /\ processUnbound(computer, message)
            /\ last' = Op("processMessage", computer, NoToken, NULL, message)
            /\ UNCHANGED <<inventory, destination>>
       ELSE /\ \E equipped \in (IF message.id = "PGMSG_EQUIP" THEN BOOLEAN ELSE {FALSE}) :
                    /\ processBound(computer, message, equipped)
                    /\ last' = [Op("processMessage", computer, NoToken, NULL, message)
                                  EXCEPT !.ret = IF message.id # "PGMSG_EQUIP" THEN "none"
                                                 ELSE IF equipped THEN "true" ELSE "false"]
            /\ UNCHANGED <<character, pendingLogins, pendingClients, sweeps, tally>>
    /\ UNCHANGED <<clients, world, orphaned>>

(***************************************************************************)
(* The rendezvous: any interleaving of the handlers.  A sweep is taken     *)
(* only while every tracked login has seen fewer than MaxSweeps sweeps, so *)
(* that the timeouts stay in a small range; SpecExpiry below runs the      *)
(* sweeps to the end of the timeout.                                       *)
(***************************************************************************)
SweepsBelow(limit) == \A t \in Tokens : sweeps[t] < limit

\* The inbound messages of the rendezvous: CONNECT with every token, and of
\* the other ids one the switch handles and one it does not.
RendezvousMessages ==
    {m \in Messages : m.id \in {"PGMSG_CONNECT", "PGMSG_SAY", "PGMSG_OTHER"}}

Next ==
    \/ \E token \in Tokens, ch \in Ids : registerGameClient(token, ch)
    \/ \E c \in Conns : computerConnected(c)
    \/ \E c \in Conns : computerDisconnected(c)
    \/ \E c \in Conns, m \in RendezvousMessages : processMessage(c, m)
    \/ SweepsBelow(MaxSweeps) /\ process

Spec == Init /\ [][Next]_vars

(***************************************************************************)
(* The dispatcher: every inbound message id and sendTo, with one token.    *)
(***************************************************************************)
DispatchTokens == {1}

DispatchMessages ==
    {m \in Messages : m.id = "PGMSG_CONNECT" => m.token \in DispatchTokens}

NextDispatch ==
    \/ \E token \in DispatchTokens, ch \in Ids : registerGameClient(token, ch)
    \/ \E c \in Conns : computerConnected(c)
    \/ \E c \in Conns : computerDisconnected(c)
    \/ \E c \in Conns, m \in DispatchMessages : processMessage(c, m)
    \/ \E being \in Ids : sendTo(being)
    \/ SweepsBelow(MaxSweeps) /\ process

SpecDispatch == Init /\ [][NextDispatch]_vars

(***************************************************************************)
(* The expiry of a pending login: the rendezvous with one token and one    *)
(* client address, and sweeps up to one past the timeout.                  *)
(***************************************************************************)
ExpiryTokens == {1}
ExpiryConns == {1}
ExpirySweeps == LoginTimeout + 1

NextExpiry ==
    \/ \E token \in ExpiryTokens, ch \in Ids : registerGameClient(token, ch)
    \/ \E c \in ExpiryConns : computerConnected(c)
    \/ \E c \in ExpiryConns : computerDisconnected(c)
    \/ \E c \in ExpiryConns, m \in RendezvousMessages :
            m.token \in ExpiryTokens \cup {NoToken} /\ processMessage(c, m)
    \/ SweepsBelow(ExpirySweeps) /\ process

SpecExpiry == Init /\ [][NextExpiry]_vars

\* The same with CONNECT messages for every token, so that a client can
\* wait under another token while the login of ExpiryTokens runs out.
NextWaiting ==
    \/ \E token \in ExpiryTokens, ch \in Ids : registerGameClient(token, ch)
    \/ \E c \in ExpiryConns : computerConnected(c)
    \/ \E c \in ExpiryConns : computerDisconnected(c)
    \/ \E c \in ExpiryConns, m \in RendezvousMessages : processMessage(c, m)
    \/ SweepsBelow(ExpirySweeps) /\ process

SpecWaiting == Init /\ [][NextWaiting]_vars

(***************************************************************************)
(* The broadcast: the rendezvous with one token and the messages CONNECT   *)
(* and SAY, from every placement of the players on the maps 1..MaxMaps and *)
(* the points of SayPoints (of two points, some are around each other and  *)
(* some are not, in either coordinate).                                    *)
(***************************************************************************)
Maps == 1..MaxMaps
SayPoints == {<<1, 1>>, <<1, 2>>, <<1, 3>>, <<3, 1>>}

SayMessages ==
    {m \in DispatchMessages : m.id \in {"PGMSG_CONNECT", "PGMSG_SAY"}}

InitSay ==
    /\ clients = {}
    /\ character = EmptyMap
    /\ pendingLogins = EmptyMap
    /\ pendingClients = EmptyMap
    /\ inventory = [i \in Ids |-> {}]
    /\ destination = [i \in Ids |-> <<>>]
    /\ mapId \in [Ids -> Maps]
    /\ xy \in [Ids -> SayPoints]
    /\ out = [c \in Conns |-> <<>>]
    /\ last = Op("init", NULL, NoToken, NULL, NoMsg)
    /\ sweeps = [t \in Tokens |-> -1]
    /\ orphaned = {}
    /\ tally = NoTally

NextSay ==
    \/ \E token \in DispatchTokens, ch \in Ids : registerGameClient(token, ch)
    \/ \E c \in Conns : computerConnected(c)
    \/ \E c \in Conns : computerDisconnected(c)
    \/ \E c \in Conns, m \in SayMessages : processMessage(c, m)

SpecSay == InitSay /\ [][NextSay]_vars

(***************************************************************************)
(* The broadcast scenario: four clients and the players A, B, C, D, with A *)
(* and B on map 1 at adjacent points, C on map 1 far from both, and D on   *)
(* map 2 at B's point, next to A's.                                        *)
(***************************************************************************)
Player == [A |-> 1, B |-> 2, C |-> 3, D |-> 4]
ScenarioIds == {Player.A, Player.B, Player.C, Player.D}
ScenarioConns == 1..4

InitScenario ==
    /\ clients = {}
    /\ character = EmptyMap
    /\ pendingLogins = EmptyMap
    /\ pendingClients = EmptyMap
    /\ inventory = [i \in ScenarioIds |-> {}]
    /\ destination = [i \in ScenarioIds |-> <<>>]
    /\ mapId = [i \in ScenarioIds |-> IF i = Player.D THEN 2 ELSE 1]
    /\ xy = [i \in ScenarioIds |->
                CASE i = Player.A -> <<1, 1>>
                  [] i = Player.B -> <<1, 2>>
                  [] i = Player.C -> <<3, 3>>
                  [] i = Player.D -> <<1, 2>>]
    /\ out = [c \in ScenarioConns |-> <<>>]
    /\ last = Op("init", NULL, NoToken, NULL, NoMsg)
    /\ sweeps = [t \in Tokens |-> -1]
    /\ orphaned = {}
    /\ tally = NoTally

NextScenario ==
    \/ \E token \in DispatchTokens, ch \in ScenarioIds : registerGameClient(token, ch)
    \/ \E c \in ScenarioConns : computerConnected(c)
    \/ \E c \in ScenarioConns : computerDisconnected(c)
    \/ \E c \in ScenarioConns, m \in SayMessages : processMessage(c, m)

SpecScenario == InitScenario /\ [][NextScenario]_vars

(***************************************************************************)
(* The use of the tokens: the rendezvous with the hand-offs and the binds  *)
(* of every token counted, at most MaxHandoffs hand-offs per token.        *)
(***************************************************************************)
InitTokens ==
    /\ clients = {}
    /\ character = EmptyMap
    /\ pendingLogins = EmptyMap
    /\ pendingClients = EmptyMap
    /\ inventory = [i \in Ids |-> {}]
    /\ destination = [i \in Ids |-> <<>>]
    /\ mapId = [i \in Ids |-> 1]
    /\ xy = [i \in Ids |-> <<1, 1>>]
    /\ out = [c \in Conns |-> <<>>]
    /\ last = Op("init", NULL, NoToken, NULL, NoMsg)
    /\ sweeps = [t \in Tokens |-> -1]
    /\ orphaned = {}
    /\ tally = [NoTally EXCEPT !.counting = TRUE]

ConnectMessages == {m \in Messages : m.id = "PGMSG_CONNECT"}

NextTokens ==
    \/ \E token \in Tokens, ch \in Ids :
            tally.handoffs[token] < MaxHandoffs /\ registerGameClient(token, ch)
    \/ \E c \in Conns : computerConnected(c)
    \/ \E c \in Conns : computerDisconnected(c)
    \/ \E c \in Conns, m \in ConnectMessages : processMessage(c, m)
    \/ SweepsBelow(MaxSweeps) /\ process

SpecTokens == InitTokens /\ [][NextTokens]_vars

(***************************************************************************)
(* Properties.  A step is named by last', the handler it ran; unprimed     *)
(* variables are the state before the handler, primed ones the state after.*)
(***************************************************************************)
Connect(c, t) ==
    Op("processMessage", c, NoToken, NULL, MsgIn("PGMSG_CONNECT", t, NULL, NULL, NULL))

Register(t, ch) == Op("registerGameClient", NULL, t, ch, NoMsg)

OnlyTo(c, m) == [NoOut EXCEPT ![c] = <<m>>]

HasPendingEntry(c) == \E t \in DOMAIN pendingClients : pendingClients[t] = c

\* C1: exclusivity: no token is at the same time a key of pendingLogins and
\* a key of pendingClients.
C1_Exclusivity == DOMAIN pendingLogins \cap DOMAIN pendingClients = {}

\* A hand-off has just been matched with a waiting client while another
\* token still has a pending login and a third party is still waiting.
C1_Witness ==
    /\ last.op = "registerGameClient"
    /\ \E c \in Conns : out[c] = <<ConnectOK>>
    /\ DOMAIN pendingLogins # {}
    /\ last.token \notin DOMAIN pendingClients

\* C2: hand-off first: an unbound client c sends CONNECT with token T while
\* a pending login (T -> I) exists; afterwards c is bound to I, exactly one
\* CONNECT_RESPONSE OK was sent, to c alone, and neither map holds T.
C2_HandoffFirst ==
    [][\A c \in Conns, T \in Tokens :
        ( /\ last' = Connect(c, T)
          /\ c \in clients
          /\ character[c] = NULL
          /\ T \in DOMAIN pendingLogins )
        => /\ character'[c] = pendingLogins[T].character
           /\ out' = OnlyTo(c, ConnectOK)
           /\ T \notin DOMAIN pendingLogins'
           /\ T \notin DOMAIN pendingClients']_vars

C2_Witness ==
    /\ last.op = "processMessage"
    /\ last.msg.id = "PGMSG_CONNECT"
    /\ last.conn \in clients
    /\ character[last.conn] # NULL
    /\ out = OnlyTo(last.conn, ConnectOK)

\* C3: connect first: registerGameClient(T, I) is called while a pending
\* client (T -> c) exists; afterwards c is bound to I, the entry is removed,
\* exactly one CONNECT_RESPONSE OK was sent, to c, and no pending login for
\* T was created.
C3_ConnectFirst ==
    [][\A T \in Tokens, I \in Ids :
        ( /\ last' = Register(T, I)
          /\ T \in DOMAIN pendingClients )
        => LET c == pendingClients[T] IN
           /\ c \in clients'
           /\ character'[c] = I
           /\ T \notin DOMAIN pendingClients'
           /\ out' = OnlyTo(c, ConnectOK)
           /\ T \notin DOMAIN pendingLogins'
           /\ pendingLogins' = pendingLogins]_vars

C3_Witness ==
    /\ last.op = "registerGameClient"
    /\ \E c \in clients :
        /\ character[c] = last.ch
        /\ out = OnlyTo(c, ConnectOK)
    /\ last.token \notin DOMAIN pendingClients
    /\ last.token \notin DOMAIN pendingLogins

\* C4: expiry: a pending login that no CONNECT matched is present after each
\* of the first 299 sweeps that follow its creation, and absent after the
\* 300th.
C4_Expiry ==
    \A t \in Tokens :
        /\ sweeps[t] \in 0..299 => t \in DOMAIN pendingLogins
        /\ sweeps[t] = 300 => t \notin DOMAIN pendingLogins

\* The 300th sweep has just run.
C4_Witness ==
    /\ last.op = "process"
    /\ \E t \in Tokens : sweeps[t] = 300 /\ t \notin DOMAIN pendingLogins

\* C5: connection dedup: a client is the value of at most one pendingClients
\* entry; a CONNECT with an unmatched token from a client that already has
\* an entry adds none, changes none and sends nothing.
C5_Dedup ==
    /\ [](\A t1, t2 \in DOMAIN pendingClients :
            pendingClients[t1] = pendingClients[t2] => t1 = t2)
    /\ [][\A c \in Conns, T \in Tokens :
            ( /\ last' = Connect(c, T)
              /\ c \in clients
              /\ character[c] = NULL
              /\ T \notin DOMAIN pendingLogins
              /\ HasPendingEntry(c) )
            => /\ pendingClients' = pendingClients
               /\ out' = NoOut]_vars

\* A waiting client has just sent CONNECT with a second, unmatched token.
C5_Witness ==
    /\ last.op = "processMessage"
    /\ last.msg.id = "PGMSG_CONNECT"
    /\ last.conn \in clients
    /\ character[last.conn] = NULL
    /\ last.msg.token \notin DOMAIN pendingLogins
    /\ last.msg.token \notin DOMAIN pendingClients
    /\ \E t \in DOMAIN pendingClients : pendingClients[t] = last.conn
    /\ out = NoOut

\* C6, as stated: after computerDisconnected(c) no entry references c, and a
\* later registerGameClient for a token whose waiting client was destroyed
\* sends to no destroyed client and leaves a pending login for that token.
C6_AsStated ==
    [][/\ (last'.op = "computerDisconnected" =>
                \A t \in DOMAIN pendingClients' : pendingClients'[t] # last'.conn)
       /\ (last'.op = "registerGameClient" /\ last'.token \in orphaned =>
                /\ \A c \in Conns \ clients' : out'[c] = <<>>
                /\ last'.token \in DOMAIN pendingLogins')]_vars

\* C6, amended: after computerDisconnected(c) no entry references c, and no
\* entry ever references a destroyed client; so a later registerGameClient
\* for a token whose waiting client was destroyed sends to no destroyed
\* client, and it leaves a pending login for that token unless a live client
\* holds the pending entry of that token by then, which it binds instead.
C6_DisconnectCleanup ==
    /\ [](\A t \in DOMAIN pendingClients : pendingClients[t] \in clients)
    /\ [][/\ (last'.op = "computerDisconnected" =>
                \A t \in DOMAIN pendingClients' : pendingClients'[t] # last'.conn)
          /\ (last'.op = "registerGameClient" /\ last'.token \in orphaned =>
                /\ \A c \in Conns \ clients' : out'[c] = <<>>
                /\ IF last'.token \in DOMAIN pendingClients
                   THEN /\ pendingClients[last'.token] \in clients'
                        /\ character'[pendingClients[last'.token]] = last'.ch
                   ELSE last'.token \in DOMAIN pendingLogins')]_vars

\* A token whose waiting client was destroyed has just been handed off and
\* became a pending login.
C6_Witness ==
    /\ last.op = "registerGameClient"
    /\ last.token \in orphaned
    /\ last.token \in DOMAIN pendingLogins
    /\ sweeps[last.token] = 0
    /\ out = NoOut

\* C7: bound is terminal: a client bound to an identity keeps that identity
\* in every later state until it disconnects.
C7_BoundIsTerminal ==
    [][\A c \in clients \cap clients' :
            character[c] # NULL => character'[c] = character[c]]_vars

\* C8, as stated: registerGameClient(T, I) with no pending client for T
\* leaves a pending login for T with identity I and ttl 300, also when a
\* pending login for T exists already.
C8_AsStated ==
    [][\A T \in Tokens, I \in Ids :
        ( /\ last' = Register(T, I)
          /\ T \notin DOMAIN pendingClients )
        => /\ T \in DOMAIN pendingLogins'
           /\ pendingLogins'[T] = [character |-> I, timeout |-> 300]]_vars

\* C8, amended: registerGameClient(T, I) with no pending client for T leaves
\* a pending login for T; when none existed before, its identity is I and
\* its ttl is 300; when one existed, it is kept as it was (the identity and
\* the remaining ttl of the earlier hand-off) and I is dropped.
C8_RegisterCreatesLogin ==
    [][\A T \in Tokens, I \in Ids :
        ( /\ last' = Register(T, I)
          /\ T \notin DOMAIN pendingClients )
        => /\ T \in DOMAIN pendingLogins'
           /\ \A u \in Tokens \ {T} :
                /\ u \in DOMAIN pendingLogins' <=> u \in DOMAIN pendingLogins
                /\ u \in DOMAIN pendingLogins => pendingLogins'[u] = pendingLogins[u]
           /\ IF T \in DOMAIN pendingLogins
              THEN pendingLogins'[T] = pendingLogins[T]
              ELSE pendingLogins'[T] = [character |-> I, timeout |-> 300]]_vars

\* A second hand-off of a token has just been dropped: the pending login
\* holds another identity and an older ttl.
C8_Witness ==
    /\ last.op = "registerGameClient"
    /\ last.token \in DOMAIN pendingLogins
    /\ pendingLogins[last.token].character # last.ch
    /\ pendingLogins[last.token].timeout < 300
    /\ out = NoOut

\* C9, as stated: an unbound client c with no pending entry sends CONNECT
\* with a token T that has no pending login; afterwards pendingClients holds
\* T -> c and nothing was sent, also when another client holds T already.
C9_AsStated ==
    [][\A c \in Conns, T \in Tokens :
        ( /\ last' = Connect(c, T)
          /\ c \in clients
          /\ character[c] = NULL
          /\ ~HasPendingEntry(c)
          /\ T \notin DOMAIN pendingLogins )
        => /\ T \in DOMAIN pendingClients'
           /\ pendingClients'[T] = c
           /\ out' = NoOut]_vars

\* C9, amended: in that case nothing is sent; when no client holds a pending
\* entry under T, pendingClients afterwards holds T -> c; when another
\* client holds T, pendingClients is unchanged and c gets no entry.
C9_ConnectCreatesPending ==
    [][\A c \in Conns, T \in Tokens :
        ( /\ last' = Connect(c, T)
          /\ c \in clients
          /\ character[c] = NULL
          /\ ~HasPendingEntry(c)
          /\ T \notin DOMAIN pendingLogins )
        => /\ out' = NoOut
           /\ character' = character
           /\ IF T \in DOMAIN pendingClients
              THEN pendingClients' = pendingClients
              ELSE /\ DOMAIN pendingClients' = DOMAIN pendingClients \cup {T}
                   /\ pendingClients'[T] = c
                   /\ \A u \in DOMAIN pendingClients :
                        pendingClients'[u] = pendingClients[u]]_vars

\* A client has just sent CONNECT with a token another client waits under:
\* it got no entry.
C9_Witness ==
    /\ last.op = "processMessage"
    /\ last.msg.id = "PGMSG_CONNECT"
    /\ last.conn \in clients
    /\ character[last.conn] = NULL
    /\ last.msg.token \in DOMAIN pendingClients
    /\ pendingClients[last.msg.token] # last.conn
    /\ ~HasPendingEntry(last.conn)
    /\ out = NoOut

\* C10: a message whose id is not CONNECT, from an unbound client, is
\* dropped: nothing is sent to any client, and pendingLogins, pendingClients
\* and every client's character are unchanged.
C10_UnboundDrop ==
    [][\A c \in Conns :
        ( /\ last'.op = "processMessage"
          /\ last'.conn = c
          /\ last'.msg.id # "PGMSG_CONNECT"
          /\ c \in clients
          /\ character[c] = NULL )
        => /\ out' = NoOut
           /\ pendingLogins' = pendingLogins
           /\ pendingClients' = pendingClients
           /\ character' = character]_vars

\* A waiting client has just sent a pickup.
C10_Witness ==
    /\ last.op = "processMessage"
    /\ last.msg.id = "PGMSG_PICKUP"
    /\ last.conn \in clients
    /\ character[last.conn] = NULL
    /\ HasPendingEntry(last.conn)
    /\ out = NoOut

\* The message of the given id from the given client, as the step's name.
Handled(c, m) == Op("processMessage", c, NoToken, NULL, m)

Say == MsgIn("PGMSG_SAY", NoToken, NULL, NULL, NULL)

\* How many messages of the given id a sequence of sent messages holds.
Count(sent, id) == Cardinality({k \in DOMAIN sent : sent[k].id = id})

\* C11: sayAround(speaker, text) sends the say message, once, to every
\* client that is bound, whose player is on the speaker's map and whose
\* coordinates are around the speaker's, and to no other client.
C11_SayAround ==
    [][\A c \in DOMAIN out :
        ( /\ last' = Handled(c, Say)
          /\ c \in clients
          /\ character[c] # NULL )
        => \A i \in DOMAIN out :
            LET listens ==
                    /\ i \in clients
                    /\ character[i] # NULL
                    /\ mapId[character[i]] = mapId[character[c]]
                    /\ areAround(xy[character[i]][1], xy[character[i]][2],
                                 xy[character[c]][1], xy[character[c]][2])
            IN  /\ Count(out'[i], "GPMSG_SAY") = (IF listens THEN 1 ELSE 0)
                /\ \A k \in DOMAIN out'[i] :
                        out'[i][k] = MsgOut("GPMSG_SAY", "none", character[c])]_vars

\* A bound client has just said something that another bound client, whose
\* player is on the same map but not around, did not get.
C11_Witness ==
    /\ last.op = "processMessage"
    /\ last.msg.id = "PGMSG_SAY"
    /\ last.conn \in clients
    /\ character[last.conn] # NULL
    /\ Count(out[last.conn], "GPMSG_SAY") = 1
    /\ \E j \in clients :
        /\ character[j] # NULL
        /\ mapId[character[j]] = mapId[character[last.conn]]
        /\ out[j] = <<>>

\* Every player of the scenario is bound to a client.
AllPresent == \A p \in ScenarioIds : \E c \in clients : character[c] = p

\* C12, as stated: with A, B, C and D bound, a say of A is delivered to B's
\* client only.
C12_AsStated ==
    [][\A c \in DOMAIN out :
        ( /\ last' = Handled(c, Say)
          /\ c \in clients
          /\ character[c] = Player.A
          /\ AllPresent )
        => \A i \in DOMAIN out :
            Count(out'[i], "GPMSG_SAY") =
                (IF i \in clients /\ character[i] = Player.B THEN 1 ELSE 0)]_vars

\* C12, amended: with A, B, C and D bound, a say of A is delivered, once
\* each, to the clients of A itself and of B, and to no other.
C12_ProximityScenario ==
    [][\A c \in DOMAIN out :
        ( /\ last' = Handled(c, Say)
          /\ c \in clients
          /\ character[c] = Player.A
          /\ AllPresent )
        => \A i \in DOMAIN out :
            Count(out'[i], "GPMSG_SAY") =
                (IF i \in clients /\ character[i] \in {Player.A, Player.B}
                 THEN 1 ELSE 0)]_vars

\* A has just said something with all four players bound.
C12_Witness ==
    /\ last.op = "processMessage"
    /\ last.msg.id = "PGMSG_SAY"
    /\ last.conn \in clients
    /\ character[last.conn] = Player.A
    /\ AllPresent
    /\ \E i \in clients : character[i] = Player.B /\ Count(out[i], "GPMSG_SAY") = 1
    /\ \A i \in clients : character[i] \in {Player.C, Player.D} => out[i] = <<>>

\* The clients the last handler sent anything to.
Recipients(sent) == {c \in DOMAIN sent : sent[c] # <<>>}

\* C13: sendTo(I, msg) delivers msg exactly once, to a client bound to I,
\* when there is one (once even if several are bound to I), and delivers
\* nothing when no live client is bound to I.
C13_SendTo ==
    [][\A I \in Ids :
        last' = Op("sendTo", NULL, NoToken, I, NoMsg)
        => LET bound == {c \in clients : character[c] = I} IN
           /\ Cardinality(Recipients(out')) = (IF bound = {} THEN 0 ELSE 1)
           /\ \A c \in Recipients(out') : c \in bound /\ Len(out'[c]) = 1]_vars

\* Two clients are bound to the addressed player; one got the message.
C13_Witness ==
    /\ last.op = "sendTo"
    /\ Cardinality({c \in clients : character[c] = last.ch}) = 2
    /\ Cardinality(Recipients(out)) = 1

Invalid == MsgOut("XXMSG_INVALID", "none", NULL)

\* C14: a message whose id has no case in the switch (a repeated CONNECT is
\* one), from a bound client, is answered with exactly one XXMSG_INVALID and
\* leaves every binding, pendingLogins and pendingClients unchanged.
C14_ProtocolError ==
    [][\A c \in DOMAIN out :
        ( /\ last'.op = "processMessage"
          /\ last'.conn = c
          /\ last'.msg.id \in {"PGMSG_CONNECT", "PGMSG_OTHER"}
          /\ c \in clients
          /\ character[c] # NULL )
        => /\ out' = OnlyTo(c, Invalid)
           /\ character' = character
           /\ pendingLogins' = pendingLogins
           /\ pendingClients' = pendingClients]_vars

\* A bound client has just sent CONNECT again, with a token that has a
\* pending login: the login is still there.
C14_Witness ==
    /\ last.op = "processMessage"
    /\ last.msg.id = "PGMSG_CONNECT"
    /\ last.conn \in clients
    /\ character[last.conn] # NULL
    /\ last.msg.token \in DOMAIN pendingLogins
    /\ out = OnlyTo(last.conn, Invalid)

\* What a handler sent to a client besides the say broadcast.
Responses(sent) == SelectSeq(sent, LAMBDA m : m.id # "GPMSG_SAY")

\* C18: one message from a bound client gets at most one response: none for
\* SAY and WALK, PICKUP_RESPONSE OK for PICKUP, USE_RESPONSE OK when the
\* player holds the item and FAILURE otherwise, EQUIP_RESPONSE OK when
\* equip() returned true and FAILURE otherwise.
C18_Responses ==
    [][\A c \in DOMAIN out :
        ( /\ last'.op = "processMessage"
          /\ last'.conn = c
          /\ c \in clients
          /\ character[c] # NULL )
        => LET m == last'.msg
               resp == Responses(out'[c])
           IN  /\ Len(resp) <= 1
               /\ m.id \in {"PGMSG_SAY", "PGMSG_WALK"} => resp = <<>>
               /\ m.id = "PGMSG_PICKUP" =>
                    resp = <<MsgOut("GPMSG_PICKUP_RESPONSE", "ERRMSG_OK", NULL)>>
               /\ m.id = "PGMSG_USE_ITEM" =>
                    resp = <<MsgOut("GPMSG_USE_RESPONSE",
                                    IF m.item \in inventory[character[c]]
                                    THEN "ERRMSG_OK" ELSE "ERRMSG_FAILURE", NULL)>>
               /\ m.id = "PGMSG_EQUIP" =>
                    /\ last'.ret \in {"true", "false"}
                    /\ resp = <<MsgOut("GPMSG_EQUIP_RESPONSE",
                                       IF last'.ret = "true"
                                       THEN "ERRMSG_OK" ELSE "ERRMSG_FAILURE", NULL)>>]_vars

\* A bound client has just used an item its player had picked up.
C18_Witness ==
    /\ last.op = "processMessage"
    /\ last.msg.id = "PGMSG_USE_ITEM"
    /\ last.conn \in clients
    /\ character[last.conn] # NULL
    /\ last.msg.item \in inventory[character[last.conn]]
    /\ out = OnlyTo(last.conn, MsgOut("GPMSG_USE_RESPONSE", "ERRMSG_OK", NULL))

\* The clients that wait in a pendingClients map.
Waiting(pending) == {pending[t] : t \in DOMAIN pending}

C16_Timeouts ==
    /\ [](\A t \in DOMAIN pendingLogins :
            pendingLogins[t].timeout \in 1..LoginTimeout)
    /\ [][IF last'.op = "process"
          THEN /\ DOMAIN pendingLogins' =
                    {t \in DOMAIN pendingLogins : pendingLogins[t].timeout > 1}
               /\ \A t \in DOMAIN pendingLogins' :
                    pendingLogins'[t].timeout = pendingLogins[t].timeout - 1
          ELSE \A t \in DOMAIN pendingLogins \cap DOMAIN pendingLogins' :
                    pendingLogins'[t].timeout = pendingLogins[t].timeout]_vars

\* A sweep has just left a login with the last unit of its timeout.
C16_Witness ==
    /\ last.op = "process"
    /\ \E t \in DOMAIN pendingLogins :
        /\ pendingLogins[t].timeout = 1
        /\ sweeps[t] = LoginTimeout - 1

\* C17: the sweep sends nothing and leaves pendingClients, the clients and
\* their characters unchanged; an entry leaves pendingClients only in a
\* registerGameClient call with its token or in the disconnect of its client.
C17_SilentExpiry ==
    [][/\ last'.op = "process" =>
            /\ out' = NoOut
            /\ pendingClients' = pendingClients
            /\ clients' = clients
            /\ character' = character
       /\ \A t \in DOMAIN pendingClients :
            (t \notin DOMAIN pendingClients' \/ pendingClients'[t] # pendingClients[t])
            => \/ last'.op = "registerGameClient" /\ last'.token = t
               \/ /\ last'.op = "computerDisconnected"
                  /\ last'.conn = pendingClients[t]]_vars

\* The sweep that removed a login has just run while a client waits under
\* another token: the client still waits.
C17_Witness ==
    /\ last.op = "process"
    /\ \E t \in Tokens : sweeps[t] = LoginTimeout /\ t \notin DOMAIN pendingLogins
    /\ \E t \in DOMAIN pendingClients :
        /\ pendingClients[t] \in clients
        /\ character[pendingClients[t]] = NULL
    /\ out = NoOut

\* C19: every client that a pendingClients entry references is live and has
\* no character; a client that got its character through a pendingLogins
\* match has no pendingClients entry.
C19_PendingAreUnbound ==
    \A t \in DOMAIN pendingClients :
        /\ pendingClients[t] \in clients
        /\ character[pendingClients[t]] = NULL

\* Whether a sequence of sent messages holds a CONNECT_RESPONSE.
GotConnectResponse(sent) == Count(sent, "GPMSG_CONNECT_RESPONSE") > 0

\* C20: a client is sent a CONNECT_RESPONSE only by the handler that changes
\* it from having no character to having one, and then once; as a client
\* never loses its character, it gets at most one in its lifetime.
C20_OneConnectResponse ==
    [][\A c \in DOMAIN out :
        GotConnectResponse(out'[c])
        => /\ Count(out'[c], "GPMSG_CONNECT_RESPONSE") = 1
           /\ c \in clients
           /\ character[c] = NULL
           /\ c \in clients'
           /\ character'[c] # NULL]_vars

====
